---- MODULE Spec2Model ----
(***************************************************************************)
(* A model of etyper (typewriter.py): the EtyperApp document, the word     *)
(* wrap with cursor tracking, the key handler, the sleep/wake cycle and    *)
(* the main loop.  Text is a sequence of one-character strings.            *)
(***************************************************************************)
EXTENDS Integers, Sequences, FiniteSets, TLC

\* ------------------------------------------------------------------------
\* Bounds of the model
\* ------------------------------------------------------------------------

\* longest text of the session specification
MaxLen == 1

\* longest text of the editor specification
MaxEditLen == 2

\* longest text of the wrap specification
MaxWrapLen == 4

\* widest line, in characters, of the wrap specification
MaxWrapCols == 3

\* usable width and height of the screen, in the model's pixels
UsableW == 2

UsableH == 2

\* the clock stops once it reads MaxTime seconds or more
MaxTime == 1

\* most events one keyboard.read() returns
MaxBatch == 2

\* the longest text a key is pressed on (key specification)
MaxKeyLen == 3

\* ------------------------------------------------------------------------
\* Characters and small helpers
\* ------------------------------------------------------------------------

NL == "\n"

SP == " "

Min(a, b) == IF a < b THEN a ELSE b

Max(a, b) == IF a > b THEN a ELSE b

\* the element of a one-element set: The({e(x) : x \in {v}}) is e(v), with v
\* worked out once
The(S) == CHOOSE v \in S : TRUE

\* s[from:] of Python, from counted from 0
DropFirst(s, n) == SubSeq(s, n + 1, Len(s))

\* s[:n] of Python
TakeFirst(s, n) == SubSeq(s, 1, Min(n, Len(s)))

\* ''.join(chunks)
RECURSIVE Join(_)
Join(chunks) ==
    IF chunks = <<>> THEN <<>> ELSE Head(chunks) \o Join(Tail(chunks))

\* chunk.strip() == '' : the chunk is whitespace only (or empty)
IsBlank(chunk) == \A i \in 1..Len(chunk) : chunk[i] = SP

\* ------------------------------------------------------------------------
\* textwrap.wrap(para, width=cpl, break_long_words=True,
\*               break_on_hyphens=False)
\* ------------------------------------------------------------------------

\* TextWrapper._split with break_on_hyphens=False: maximal runs of
\* whitespace and of non-whitespace, in order
RECURSIVE SplitChunks(_, _)
SplitChunks(para, cur) ==
    IF para = <<>>
    THEN IF cur = <<>> THEN <<>> ELSE <<cur>>
    ELSE IF cur = <<>> \/ ((Head(para) = SP) = (cur[1] = SP))
         THEN SplitChunks(Tail(para), Append(cur, Head(para)))
         ELSE <<cur>> \o SplitChunks(Tail(para), <<Head(para)>>)

\* the inner "while chunks" of _wrap_chunks: move chunks onto the current
\* line while they fit
RECURSIVE FillLine(_, _, _, _)
FillLine(chunks, width, cur_line, cur_len) ==
    IF chunks # <<>> /\ cur_len + Len(Head(chunks)) <= width
    THEN FillLine(Tail(chunks), width, Append(cur_line, Head(chunks)),
                  cur_len + Len(Head(chunks)))
    ELSE [cur_line |-> cur_line, cur_len |-> cur_len, chunks |-> chunks]

\* TextWrapper._handle_long_word as with break_long_words=False: the word
\* goes whole on a line of its own
HandleLongWordWhole(st, width) ==
    IF st.cur_line = <<>>
    THEN [cur_line |-> <<Head(st.chunks)>>,
          cur_len  |-> st.cur_len,
          chunks   |-> Tail(st.chunks)]
    ELSE st

\* TextWrapper._handle_long_word with break_long_words=True
HandleLongWord(st, width) ==
    [cur_line |-> Append(st.cur_line,
                         TakeFirst(Head(st.chunks),
                                   IF width < 1 THEN 1 ELSE width - st.cur_len)),
     cur_len  |-> st.cur_len,
     chunks   |-> <<DropFirst(Head(st.chunks),
                              IF width < 1 THEN 1 ELSE width - st.cur_len)>>
                  \o Tail(st.chunks)]

\* "The current line is full, and the next chunk is too big to fit on *any*
\* line"
BreakLongWord(st, width) ==
    IF st.chunks # <<>> /\ Len(Head(st.chunks)) > width
    THEN HandleLongWord(st, width)
    ELSE st

\* "First chunk on line is whitespace -- drop it, unless this is the very
\* beginning of the text"
DropLeadingBlank(chunks, lines) ==
    IF IsBlank(Head(chunks)) /\ lines # <<>> THEN Tail(chunks) ELSE chunks

\* "If the last chunk on this line is all whitespace, drop it"
DropTrailingBlank(cur_line) ==
    IF cur_line # <<>> /\ IsBlank(cur_line[Len(cur_line)])
    THEN SubSeq(cur_line, 1, Len(cur_line) - 1)
    ELSE cur_line

\* "if cur_line: lines.append(''.join(cur_line))"
AppendLine(lines, cur_line) ==
    IF cur_line # <<>> THEN Append(lines, Join(cur_line)) ELSE lines

\* the outer loop of _wrap_chunks: WrapChunks starts a line, WrapLine ends it
RECURSIVE WrapChunks(_, _, _)
WrapLine(st, width, lines) ==
    The({WrapChunks(st.chunks, width, ended) :
            ended \in {AppendLine(lines, DropTrailingBlank(st.cur_line))}})

WrapChunks(chunks, width, lines) ==
    IF chunks = <<>> THEN lines
    ELSE The({WrapLine(BreakLongWord(filled, width), width, lines) :
                 filled \in {FillLine(DropLeadingBlank(chunks, lines),
                                      width, <<>>, 0)}})

TextWrap(para, width) ==
    The({WrapChunks(chunks, width, <<>>) : chunks \in {SplitChunks(para, <<>>)}})

\* "if not wrapped: wrapped = ['']"
OrEmptyLine(wrapped) == IF wrapped = <<>> THEN << <<>> >> ELSE wrapped

\* text.split("\n")
RECURSIVE SplitNL(_, _)
SplitNL(text, cur) ==
    IF text = <<>> THEN <<cur>>
    ELSE IF Head(text) = NL
         THEN <<cur>> \o SplitNL(Tail(text), <<>>)
         ELSE SplitNL(Tail(text), Append(cur, Head(text)))

Paragraphs(text) == SplitNL(text, <<>>)

\* ------------------------------------------------------------------------
\* EtyperApp._wrap_with_cursor
\* ------------------------------------------------------------------------

\* dict assignment char_to_pos[k] = v
Put(map, k, v) == (k :> v) @@ map

\* "for col, ch in enumerate(w_line)": the characters of one wrapped line,
\* mapped from offset `first` on
MapLineChars(map, first, line_idx, w_line) ==
    [k \in first..(first + Len(w_line) - 1) |-> <<line_idx, k - first>>] @@ map

\* "if para_char < len(para) and para[para_char] == ' '": the character at
\* offset para_char of the paragraph is taken for the space the wrap consumed
SpaceConsumed(para, para_char) ==
    para_char < Len(para) /\ para[para_char + 1] = SP

\* "Account for the space that was consumed by wrapping": the table
MapConsumedSpace(map, para, para_start, para_char, line_idx, line_len) ==
    IF SpaceConsumed(para, para_char)
    THEN Put(map, para_start + para_char, <<line_idx, line_len>>)
    ELSE map

\* ... and the offset in the paragraph
SkipConsumedSpace(para, para_char) ==
    IF SpaceConsumed(para, para_char) THEN para_char + 1 ELSE para_char

\* one pass of "for w_line in wrapped": acc is [lines, map, line_idx]
MapLine(acc, w_line, para, para_start, para_char) ==
    [lines    |-> Append(acc.lines, w_line),
     map      |-> MapConsumedSpace(
                      MapLineChars(acc.map, para_start + para_char,
                                   acc.line_idx, w_line),
                      para, para_start, para_char + Len(w_line),
                      acc.line_idx, Len(w_line)),
     line_idx |-> acc.line_idx + 1]

\* "for w_line in wrapped", para_char the offset reached in the paragraph
RECURSIVE MapWrapped(_, _, _, _, _)
MapWrapped(wrapped, para, para_start, para_char, acc) ==
    IF wrapped = <<>> THEN acc
    ELSE The({MapWrapped(Tail(wrapped), para, para_start, next_char, mapped) :
                 next_char \in {SkipConsumedSpace(para,
                                                  para_char + Len(Head(wrapped)))},
                 mapped \in {MapLine(acc, Head(wrapped), para, para_start,
                                     para_char)}})

\* "Map the \n that ends this paragraph (cursor at \n = end of line)"
MapNewline(acc, para, para_start, is_last) ==
    IF is_last THEN acc
    ELSE [acc EXCEPT !.map = Put(acc.map, para_start + Len(para),
                                 <<acc.line_idx - 1,
                                   Len(acc.lines[Len(acc.lines)])>>)]

\* "if para == ''"
MapEmptyParagraph(acc, para_start, is_last) ==
    [lines    |-> Append(acc.lines, <<>>),
     map      |-> IF is_last THEN acc.map
                  ELSE Put(acc.map, para_start, <<acc.line_idx, 0>>),
     line_idx |-> acc.line_idx + 1]

\* the "else" of "if para == ''": the paragraph is wrapped and mapped
MapParagraph(acc, para, cpl, para_start, is_last) ==
    The({MapNewline(done, para, para_start, is_last) :
            done \in {MapWrapped(wrapped, para, para_start, 0, acc) :
                         wrapped \in {OrEmptyLine(TextWrap(para, cpl))}}})

\* "for p_idx, para in enumerate(paragraphs)"
RECURSIVE MapParagraphs(_, _, _, _)
MapParagraphs(paras, cpl, para_start, acc) ==
    IF paras = <<>> THEN acc
    ELSE The({MapParagraphs(Tail(paras), cpl, para_start + Len(Head(paras)) + 1,
                            done) :
                 done \in {IF Head(paras) = <<>>
                           THEN MapEmptyParagraph(acc, para_start, Len(paras) = 1)
                           ELSE MapParagraph(acc, Head(paras), cpl, para_start,
                                             Len(paras) = 1)}})

\* "Handle empty document"
OrEmptyDocument(built) ==
    [lines |-> IF built.lines = <<>> THEN << <<>> >> ELSE built.lines,
     map   |-> built.map]

\* the lines and the char_to_pos table built by _wrap_with_cursor
WrapTable(text, cpl) ==
    The({OrEmptyDocument(built) :
            built \in {MapParagraphs(paras, cpl, 0,
                                     [lines |-> <<>>, map |-> <<>>, line_idx |-> 0]) :
                          paras \in {Paragraphs(text)}}})

\* "Cursor at end of text" and "Fallback: cursor at end"
CursorAtEnd(wrapped_lines) ==
    [lines       |-> wrapped_lines,
     cursor_line |-> Len(wrapped_lines) - 1,
     cursor_col  |-> Len(wrapped_lines[Len(wrapped_lines)])]

\* "Find cursor position"
FindCursor(t, text_len, cur) ==
    IF cur >= text_len THEN CursorAtEnd(t.lines)
    ELSE IF cur \in DOMAIN t.map
         THEN [lines       |-> t.lines,
               cursor_line |-> t.map[cur][1],
               cursor_col  |-> t.map[cur][2]]
         ELSE CursorAtEnd(t.lines)

\* (lines, cursor_line, cursor_col) as _wrap_with_cursor returns them
WrapWithCursor(text, cur, cpl) ==
    The({FindCursor(t, Len(text), cur) : t \in {WrapTable(text, cpl)}})

\* ------------------------------------------------------------------------
\* EtyperApp._pos_from_line_col
\* ------------------------------------------------------------------------

\* "for w_line in wrapped": the offset of (target_line, target_col) when the
\* target line is in this paragraph, else the line index reached
RECURSIVE PosInWrapped(_, _, _, _, _, _, _)
PosInWrapped(wrapped, para, text_pos, para_char, line_idx, target_line, target_col) ==
    IF wrapped = <<>> THEN [found |-> FALSE, pos |-> 0, line_idx |-> line_idx]
    ELSE IF line_idx = target_line
         THEN [found    |-> TRUE,
               pos      |-> text_pos + para_char + Min(target_col, Len(Head(wrapped))),
               line_idx |-> line_idx]
         ELSE The({PosInWrapped(Tail(wrapped), para, text_pos, next_char,
                                line_idx + 1, target_line, target_col) :
                      next_char \in {SkipConsumedSpace(para,
                                         para_char + Len(Head(wrapped)))}})

\* "for para in text.split(...)": PosInParagraphs takes a paragraph,
\* PosAfterParagraph goes on from the result r of its wrapped lines
RECURSIVE PosInParagraphs(_, _, _, _, _, _, _)
PosAfterParagraph(r, paras, cpl, text_pos, target_line, target_col, text_len) ==
    IF r.found THEN r.pos
    ELSE PosInParagraphs(Tail(paras), cpl, text_pos + Len(Head(paras)) + 1,
                         r.line_idx, target_line, target_col, text_len)

PosInParagraphs(paras, cpl, text_pos, line_idx, target_line, target_col, text_len) ==
    IF paras = <<>> THEN text_len
    ELSE IF Head(paras) = <<>>
         THEN IF line_idx = target_line
              THEN text_pos + Min(target_col, 0)
              ELSE PosInParagraphs(Tail(paras), cpl, text_pos + 1, line_idx + 1,
                                   target_line, target_col, text_len)
         ELSE The({PosAfterParagraph(r, paras, cpl, text_pos, target_line,
                                     target_col, text_len) :
                      r \in {PosInWrapped(wrapped, Head(paras), text_pos, 0,
                                          line_idx, target_line, target_col) :
                                wrapped \in {OrEmptyLine(TextWrap(Head(paras),
                                                                  cpl))}}})

PosFromLineCol(text, cpl, target_line, target_col) ==
    The({PosInParagraphs(paras, cpl, 0, 0, target_line, target_col, Len(text)) :
            paras \in {Paragraphs(text)}})

\* ------------------------------------------------------------------------
\* Configuration and the keycode table
\* ------------------------------------------------------------------------

AUTOSAVE_INTERVAL == 10

\* "Full refresh every 5 minutes (or Ctrl+R) to clean ghosting", in seconds
FULL_REFRESH_INTERVAL == 300

\* KEYMAP: keycode -> (normal, shifted)
KEYMAP ==
    [k \in {"KEY_A", "KEY_S", "KEY_SPACE", "KEY_TAB"} |->
        CASE k = "KEY_A"     -> << <<"a">>, <<"A">> >>
          [] k = "KEY_S"     -> << <<"s">>, <<"S">> >>
          [] k = "KEY_SPACE" -> << <<SP>>, <<SP>> >>
          [] k = "KEY_TAB"   -> << <<SP, SP, SP, SP>>, <<SP, SP, SP, SP>> >>]

ShiftKeys == {"KEY_LEFTSHIFT", "KEY_RIGHTSHIFT"}

CtrlKeys == {"KEY_LEFTCTRL", "KEY_RIGHTCTRL"}

\* the keys of the "if self.ctrl_held" block
CommandKeys == {"KEY_Q", "KEY_S", "KEY_N", "KEY_R", "KEY_LEFT", "KEY_RIGHT"}

\* event.value: 0 release, 1 press, 2 repeat
KeyValues == {0, 1, 2}

\* doc_path is None
NoPath == <<>>

\* the goodbye screens of _sleep_mode and of _shutdown
SleepGoodbye == <<"Saved. Goodbye.", "Ctrl+Q to resume">>

ShutdownGoodbye == <<"Saved. Goodbye.">>

\* ------------------------------------------------------------------------
\* State
\* ------------------------------------------------------------------------

VARIABLES
    text, cursor, doc_path, dirty, scroll_offset, needs_display_update,
    shift_held, ctrl_held, chars_per_line, lines_per_page,
    running, keyboard, last_save_time,
    files, last_doc, now,
    epd, last_full_refresh, io,
    pc, pending, wake_ctrl,
    shift_down, ctrl_down,
    lines, cursor_line, cursor_col, pos

\* the document and its view
docVars == <<text, cursor, doc_path, dirty, scroll_offset, needs_display_update>>

\* KeyModifierState
modVars == <<shift_held, ctrl_held>>

\* the keyboard's side of the modifiers: whether Shift and Ctrl are held, as
\* the press and release events read from the keyboard so far imply
heldVars == <<shift_down, ctrl_down>>

\* the text metrics
layoutVars == <<chars_per_line, lines_per_page>>

\* the documents directory: the stored documents and the .last_doc pointer
storeVars == <<files, last_doc>>

\* last_full_refresh is the panel's side of the display: the time of the last
\* full refresh it was given (init and display, or full_refresh)

\* the results of the last call of the wrap functions (wrap specification)
wrapVars == <<lines, cursor_line, cursor_col, pos>>

vars == <<text, cursor, doc_path, dirty, scroll_offset, needs_display_update,
          shift_held, ctrl_held, chars_per_line, lines_per_page,
          running, keyboard, last_save_time, files, last_doc, now,
          epd, last_full_refresh, io, pc, pending, wake_ctrl, shift_down, ctrl_down,
          lines, cursor_line, cursor_col, pos>>

\* ------------------------------------------------------------------------
\* Document management
\* ------------------------------------------------------------------------

\* _new_doc_path: doc_<timestamp to the second>.txt
NewDocPath(t) == <<"doc", t>>

\* os.path.exists(path)
Exists(fs, path) == path \in DOMAIN fs

\* the file write of save_document: "if self.doc_path: ... f.write(self.text)"
SaveFile(fs, path, t) == IF path # NoPath THEN Put(fs, path, t) ELSE fs

\* _get_last_doc_path
GetLastDocPath(fs, ptr) == IF ptr # NoPath /\ Exists(fs, ptr) THEN ptr ELSE NoPath

\* a load_document that opens the document and reads nothing from it
LoadDocumentUnread(fs, ptr, path, t) ==
    LET p1 == IF path # NoPath /\ Exists(fs, path) THEN path
              ELSE GetLastDocPath(fs, ptr)
    IN  IF p1 # NoPath /\ Exists(fs, p1)
        THEN [doc_path |-> p1, text |-> <<>>]
        ELSE [doc_path |-> NewDocPath(t), text |-> <<>>]

\* load_document(path): the path and the text it ends with
LoadDocument(fs, ptr, path, t) ==
    LET p1 == IF path # NoPath /\ Exists(fs, path) THEN path
              ELSE GetLastDocPath(fs, ptr)
    IN  IF p1 # NoPath /\ Exists(fs, p1)
        THEN [doc_path |-> p1, text |-> fs[p1]]
        ELSE [doc_path |-> NewDocPath(t), text |-> <<>>]

\* _list_docs: the stored documents, sorted by name
RECURSIVE SortedDocs(_)
SortedDocs(paths) ==
    IF paths = {} THEN <<>>
    ELSE The({<<first>> \o SortedDocs(paths \ {first}) :
                 first \in {CHOOSE p \in paths : \A q \in paths : p[2] <= q[2]}})

ListDocs(fs) == SortedDocs(DOMAIN fs)

\* docs.index(self.doc_path), len(docs) - 1 on ValueError
DocIndex(docs, path) ==
    IF \E i \in 1..Len(docs) : docs[i] = path
    THEN (CHOOSE i \in 1..Len(docs) : docs[i] = path) - 1
    ELSE Len(docs) - 1

\* _switch_document(direction) on the stored documents fs, the .last_doc
\* pointer ptr and the document t open under path with the cursor at cur, at
\* second `time`: what it leaves
SwitchDocument(fs, ptr, path, t, cur, direction, time) ==
    LET saved == SaveFile(fs, path, t)
        docs == ListDocs(saved)
        new_idx == DocIndex(docs, path) + direction
    IN  IF docs # <<>> /\ new_idx >= 0 /\ new_idx < Len(docs)
        THEN LET doc == LoadDocument(saved, ptr, docs[new_idx + 1], time)
             IN  [files |-> saved, doc_path |-> doc.doc_path, text |-> doc.text,
                  cursor |-> Len(doc.text), last_doc |-> doc.doc_path,
                  dirty |-> FALSE]
        ELSE [files |-> saved, doc_path |-> path, text |-> t, cursor |-> cur,
              last_doc |-> ptr, dirty |-> FALSE]

\* ------------------------------------------------------------------------
\* Rendering
\* ------------------------------------------------------------------------

\* _calc_text_metrics
CalcCharsPerLine(usable_w, char_w) == Max(1, usable_w \div char_w)

CalcLinesPerPage(usable_h, line_h) == Max(1, usable_h \div line_h) - 1

\* an auto-scroll that follows the cursor down and never back up
AutoScrollDownOnly(cur_line, visible, scroll) ==
    IF cur_line >= scroll + visible THEN cur_line - visible + 1 ELSE scroll

\* render: "Auto-scroll to keep cursor visible"
AutoScroll(cur_line, visible, scroll) ==
    IF cur_line < scroll THEN cur_line
    ELSE IF cur_line >= scroll + visible THEN cur_line - visible + 1
    ELSE scroll

\* lines[a:b] of Python
Slice(s, a, b) == SubSeq(s, a + 1, Min(b, Len(s)))

\* the frame render draws: the visible lines, the cursor cell and the unsaved
\* marker of the status bar
Frame(w, off, visible, isDirty) ==
    <<Slice(w.lines, off, off + visible), w.cursor_line - off, w.cursor_col, isDirty>>

\* render from the wrapped lines w: the scroll offset it leaves, the frame
RenderWrapped(w, visible, scroll, isDirty) ==
    [scroll_offset |-> AutoScroll(w.cursor_line, visible, scroll),
     frame |-> Frame(w, AutoScroll(w.cursor_line, visible, scroll), visible, isDirty)]

Render(t, cur, cpl, visible, scroll, isDirty) ==
    The({RenderWrapped(w, visible, scroll, isDirty) :
            w \in {WrapWithCursor(t, cur, cpl)}})

RenderNow == Render(text, cursor, chars_per_line, lines_per_page, scroll_offset, dirty)

\* ------------------------------------------------------------------------
\* Cursor movement and editing
\* ------------------------------------------------------------------------

\* _cursor_up, from the wrapped lines w
UpFrom(w, t, cur, cpl) ==
    IF w.cursor_line = 0 THEN cur
    ELSE PosFromLineCol(t, cpl, w.cursor_line - 1,
                        Min(w.cursor_col, Len(w.lines[w.cursor_line])))

CursorUp(t, cur, cpl) ==
    The({UpFrom(w, t, cur, cpl) : w \in {WrapWithCursor(t, cur, cpl)}})

\* _cursor_down, from the wrapped lines w
DownFrom(w, t, cur, cpl) ==
    IF w.cursor_line >= Len(w.lines) - 1 THEN cur
    ELSE PosFromLineCol(t, cpl, w.cursor_line + 1,
                        Min(w.cursor_col, Len(w.lines[w.cursor_line + 2])))

CursorDown(t, cur, cpl) ==
    The({DownFrom(w, t, cur, cpl) : w \in {WrapWithCursor(t, cur, cpl)}})

\* KEY_HOME
HomePos(t, cur, cpl) ==
    PosFromLineCol(t, cpl, WrapWithCursor(t, cur, cpl).cursor_line, 0)

\* KEY_END, from the wrapped lines w
EndFrom(w, t, cpl) ==
    PosFromLineCol(t, cpl, w.cursor_line, Len(w.lines[w.cursor_line + 1]))

EndPos(t, cur, cpl) ==
    The({EndFrom(w, t, cpl) : w \in {WrapWithCursor(t, cur, cpl)}})

\* KEY_LEFT and KEY_RIGHT
CursorLeft(t, cur) == IF cur > 0 THEN cur - 1 ELSE cur

\* KEY_RIGHT without the test "self.cursor < len(self.text)"
CursorRightUnclamped(t, cur) == cur + 1

CursorRight(t, cur) == IF cur < Len(t) THEN cur + 1 ELSE cur

\* an insertion that appends: text + s
InsertAtEnd(t, cur, s) == t \o s

\* text[:cursor] + s + text[cursor:]
InsertAt(t, cur, s) == TakeFirst(t, cur) \o s \o DropFirst(t, cur)

\* text[:i] + text[i + 1:]
DeleteAt(t, i) == TakeFirst(t, i) \o DropFirst(t, i + 1)

\* ------------------------------------------------------------------------
\* Construction and startup
\* ------------------------------------------------------------------------

\* EtyperApp.__init__, with an empty documents directory
Init ==
    /\ text = <<>> /\ cursor = 0 /\ doc_path = NoPath
    /\ running = FALSE /\ dirty = FALSE
    /\ now = 0 /\ last_save_time = 0
    /\ keyboard = FALSE
    /\ shift_held = FALSE /\ ctrl_held = FALSE
    /\ shift_down = FALSE /\ ctrl_down = FALSE
    /\ chars_per_line = 30 /\ lines_per_page = 20
    /\ needs_display_update = TRUE /\ scroll_offset = 0
    /\ files = <<>> /\ last_doc = NoPath
    /\ epd = "none" /\ last_full_refresh = 0 /\ io = <<>>
    /\ pc = "start" /\ pending = 0 /\ wake_ctrl = FALSE
    /\ lines = <<>> /\ cursor_line = 0 /\ cursor_col = 0 /\ pos = 0

\* run(), up to the call of _main_loop: the metrics of the font found, the
\* document loaded, the first full frame, the keyboard found or not
Run ==
    /\ pc = "start"
    /\ \E char_w \in 1..UsableW, line_h \in 1..(UsableH \div 2), found \in BOOLEAN :
        \E cpl \in {CalcCharsPerLine(UsableW, char_w)},
           visible \in {CalcLinesPerPage(UsableH, line_h)},
           doc \in {LoadDocument(files, last_doc, NoPath, now)} :
            \E r \in {Render(doc.text, Len(doc.text), cpl, visible,
                              scroll_offset, FALSE)} :
                /\ chars_per_line' = cpl
                /\ lines_per_page' = visible
                /\ doc_path' = doc.doc_path
                /\ text' = doc.text
                /\ cursor' = Len(doc.text)
                /\ last_doc' = doc.doc_path
                /\ dirty' = FALSE
                /\ scroll_offset' = r.scroll_offset
                /\ io' = <<<<"init", <<>>>>, <<"display", r.frame>>,
                           <<"init_partial", <<>>>>>>
                /\ keyboard' = found
    /\ epd' = "partial"
    /\ last_full_refresh' = now
    /\ running' = TRUE
    /\ last_save_time' = now
    /\ needs_display_update' = FALSE
    /\ pc' = "loop"
    /\ UNCHANGED <<modVars, heldVars, files, now, pending, wake_ctrl, wrapVars>>

\* ------------------------------------------------------------------------
\* The environment: the clock and the interrupt
\* ------------------------------------------------------------------------

\* the clock advances by one of `strides` seconds while the loop waits in
\* select or sleep
Tick(strides) ==
    /\ pc \in {"loop", "asleep"}
    /\ now < MaxTime
    /\ \E d \in strides : now' = now + d
    /\ UNCHANGED <<docVars, modVars, heldVars,
                   layoutVars, running, keyboard, last_save_time,
                   storeVars, epd,
                   last_full_refresh, io, pc, pending, wake_ctrl, wrapVars>>

\* signal_handler (SIGINT, SIGTERM)
Signal ==
    /\ pc \in {"loop", "dispatch", "asleep"}
    /\ running
    /\ running' = FALSE
    /\ UNCHANGED <<docVars, modVars, heldVars, layoutVars, keyboard, last_save_time,
                   storeVars, now, epd,
                   last_full_refresh, io, pc, pending, wake_ctrl, wrapVars>>

\* ------------------------------------------------------------------------
\* _main_loop
\* ------------------------------------------------------------------------

\* _check_autosave: the condition
AutosaveDue == dirty /\ now - last_save_time >= AUTOSAVE_INTERVAL

\* an end of the iteration that checks the autosave and draws nothing
FinishIterationAutosaveOnly ==
    /\ io' = IF AutosaveDue THEN <<<<"save", text>>>> ELSE <<>>
    /\ files' = IF AutosaveDue THEN SaveFile(files, doc_path, text) ELSE files
    /\ dirty' = IF AutosaveDue THEN FALSE ELSE dirty
    /\ last_save_time' = IF AutosaveDue THEN now ELSE last_save_time
    /\ pc' = "loop"
    /\ UNCHANGED <<text, cursor, doc_path, scroll_offset, needs_display_update,
                   modVars, heldVars, layoutVars, running, last_doc, now, epd,
                   last_full_refresh, pending, wake_ctrl, wrapVars>>

\* the end of an iteration of _main_loop: "if self.needs_display_update"
\* and _check_autosave
FinishIteration ==
    /\ IF needs_display_update
       THEN \E r \in {RenderNow} :
                /\ scroll_offset' = r.scroll_offset
                /\ io' = <<<<"display_image_partial", r.frame>>>>
                         \o (IF AutosaveDue THEN <<<<"save", text>>>> ELSE <<>>)
       ELSE /\ scroll_offset' = scroll_offset
            /\ io' = IF AutosaveDue THEN <<<<"save", text>>>> ELSE <<>>
    /\ needs_display_update' = FALSE
    /\ files' = IF AutosaveDue THEN SaveFile(files, doc_path, text) ELSE files
    /\ dirty' = IF AutosaveDue THEN FALSE ELSE dirty
    /\ last_save_time' = IF AutosaveDue THEN now ELSE last_save_time
    /\ pc' = "loop"
    /\ UNCHANGED <<text, cursor, doc_path, modVars, heldVars, layoutVars, running,
                   last_doc, now, epd, last_full_refresh, pending, wake_ctrl, wrapVars>>

\* an iteration with no keyboard: _find_keyboard fails, sleep, _check_autosave
NoKeyboard ==
    /\ pc = "loop" /\ running /\ ~keyboard
    /\ files' = IF AutosaveDue THEN SaveFile(files, doc_path, text) ELSE files
    /\ dirty' = IF AutosaveDue THEN FALSE ELSE dirty
    /\ last_save_time' = IF AutosaveDue THEN now ELSE last_save_time
    /\ io' = IF AutosaveDue THEN <<<<"save", text>>>> ELSE <<>>
    /\ UNCHANGED <<text, cursor, doc_path, scroll_offset, needs_display_update,
                   modVars, heldVars, layoutVars, running, keyboard, last_doc, now, epd,
                   last_full_refresh,
                   pc, pending, wake_ctrl, wrapVars>>

\* an iteration whose select times out (the keyboard present, or found now)
PollIdle ==
    /\ pc = "loop" /\ running
    /\ keyboard' = TRUE
    /\ FinishIteration

\* a handler of OSError that gives the session up
KeyboardLostStops ==
    /\ pc = "loop" /\ running
    /\ keyboard' = FALSE
    /\ running' = FALSE
    /\ io' = <<>>
    /\ UNCHANGED <<docVars, modVars, heldVars, layoutVars, last_save_time, storeVars, now,
                   epd, last_full_refresh, pc, pending, wake_ctrl, wrapVars>>

\* an iteration whose select or read raises OSError: the keyboard is dropped
KeyboardLost ==
    /\ pc = "loop" /\ running
    /\ keyboard' = FALSE
    /\ io' = <<>>
    /\ UNCHANGED <<docVars, modVars, heldVars, layoutVars, running, last_save_time,
                   storeVars, now, epd,
                   last_full_refresh, pc, pending, wake_ctrl, wrapVars>>

\* an iteration whose read returns a batch of events
PollRead ==
    /\ pc = "loop" /\ running
    /\ keyboard' = TRUE
    /\ \E n \in 1..MaxBatch : pending' = n
    /\ pc' = "dispatch"
    /\ io' = <<>>
    /\ UNCHANGED <<docVars, modVars, heldVars, layoutVars, running, last_save_time,
                   storeVars, now, epd, last_full_refresh, wake_ctrl, wrapVars>>

\* the batch is handled: the iteration ends
EndIteration ==
    /\ pc = "dispatch" /\ pending = 0
    /\ FinishIteration
    /\ UNCHANGED keyboard

\* _shutdown, run when the loop is left
Shutdown ==
    /\ pc = "loop" /\ ~running
    /\ files' = IF dirty THEN SaveFile(files, doc_path, text) ELSE files
    /\ last_save_time' = IF dirty THEN now ELSE last_save_time
    /\ dirty' = FALSE
    /\ io' = (IF dirty THEN <<<<"save", text>>>> ELSE <<>>)
             \o <<<<"init", <<>>>>, <<"display", ShutdownGoodbye>>,
                  <<"sleep", <<>>>>, <<"close", <<>>>>>>
    /\ epd' = "closed"
    /\ last_full_refresh' = now
    /\ pc' = "done"
    /\ UNCHANGED <<text, cursor, doc_path, scroll_offset, needs_display_update,
                   modVars, heldVars, layoutVars, running, keyboard, last_doc, now,
                   pending, wake_ctrl, wrapVars>>

\* the program is started again after it ended: EtyperApp.__init__, with the
\* documents directory as the last session left it
Restart ==
    /\ pc = "done"
    /\ text' = <<>> /\ cursor' = 0 /\ doc_path' = NoPath
    /\ running' = FALSE /\ dirty' = FALSE
    /\ last_save_time' = now
    /\ keyboard' = FALSE
    /\ shift_held' = FALSE /\ ctrl_held' = FALSE
    /\ shift_down' = FALSE /\ ctrl_down' = FALSE
    /\ chars_per_line' = 30 /\ lines_per_page' = 20
    /\ needs_display_update' = TRUE /\ scroll_offset' = 0
    /\ epd' = "none" /\ io' = <<>>
    /\ pc' = "start" /\ pending' = 0 /\ wake_ctrl' = FALSE
    /\ UNCHANGED <<storeVars, now, last_full_refresh, wrapVars>>

\* ------------------------------------------------------------------------
\* _handle_key: one action per branch, each handling the next event of the
\* batch read by _main_loop
\* ------------------------------------------------------------------------

\* the next event of the batch is taken
Dispatch ==
    /\ pc = "dispatch" /\ pending > 0
    /\ pending' = pending - 1

\* "Track modifier state"
KeyShift ==
    /\ Dispatch
    /\ \E v \in KeyValues : shift_held' = (v # 0) /\ shift_down' = (v # 0)
    /\ io' = <<>>
    /\ UNCHANGED <<docVars, ctrl_held, ctrl_down, layoutVars, running, keyboard,
                   last_save_time, storeVars, now, epd, last_full_refresh, pc, wake_ctrl, wrapVars>>

KeyCtrl ==
    /\ Dispatch
    /\ \E v \in KeyValues : ctrl_held' = (v # 0) /\ ctrl_down' = (v # 0)
    /\ io' = <<>>
    /\ UNCHANGED <<docVars, shift_held, shift_down, layoutVars, running, keyboard,
                   last_save_time, storeVars, now, epd, last_full_refresh, pc, wake_ctrl, wrapVars>>

\* "Only handle press and repeat": the release of a key that is no modifier,
\* and a key no branch handles
KeyIgnored ==
    /\ Dispatch
    /\ io' = <<>>
    /\ UNCHANGED <<docVars, modVars, heldVars,
                   layoutVars, running, keyboard, last_save_time,
                   storeVars, now, epd, last_full_refresh, pc, wake_ctrl, wrapVars>>

\* Ctrl+Q: save_document, then _sleep_mode up to the call of _wait_for_wake
CtrlQ ==
    /\ Dispatch /\ ctrl_held
    /\ files' = SaveFile(files, doc_path, text)
    /\ dirty' = FALSE
    /\ last_save_time' = now
    /\ io' = <<<<"save", text>>, <<"init", <<>>>>, <<"display", SleepGoodbye>>,
               <<"sleep", <<>>>>>>
    /\ epd' = "sleep"
    /\ last_full_refresh' = now
    /\ wake_ctrl' = FALSE
    /\ pc' = "asleep"
    /\ UNCHANGED <<text, cursor, doc_path, scroll_offset, needs_display_update,
                   modVars, heldVars,
                   layoutVars, running, keyboard, last_doc, now, wrapVars>>

\* Ctrl+S
CtrlS ==
    /\ Dispatch /\ ctrl_held
    /\ files' = SaveFile(files, doc_path, text)
    /\ dirty' = FALSE
    /\ last_save_time' = now
    /\ needs_display_update' = TRUE
    /\ io' = <<<<"save", text>>>>
    /\ UNCHANGED <<text, cursor, doc_path, scroll_offset, modVars, heldVars, layoutVars,
                   running, keyboard, last_doc, now, epd,
                   last_full_refresh, pc, wake_ctrl, wrapVars>>

\* a new_document that leaves the .last_doc pointer alone
CtrlNUnrecorded ==
    /\ Dispatch /\ ctrl_held
    /\ files' = SaveFile(files, doc_path, text)
    /\ last_save_time' = now
    /\ doc_path' = NewDocPath(now)
    /\ text' = <<>>
    /\ cursor' = 0
    /\ scroll_offset' = 0
    /\ dirty' = FALSE
    /\ needs_display_update' = TRUE
    /\ io' = <<<<"save", text>>>>
    /\ UNCHANGED <<modVars, heldVars, layoutVars, running, keyboard, last_doc, now, epd,
                   last_full_refresh, pc, wake_ctrl, wrapVars>>

\* Ctrl+N: new_document
CtrlN ==
    /\ Dispatch /\ ctrl_held
    /\ files' = SaveFile(files, doc_path, text)
    /\ last_save_time' = now
    /\ doc_path' = NewDocPath(now)
    /\ text' = <<>>
    /\ cursor' = 0
    /\ scroll_offset' = 0
    /\ last_doc' = NewDocPath(now)
    /\ dirty' = FALSE
    /\ needs_display_update' = TRUE
    /\ io' = <<<<"save", text>>>>
    /\ UNCHANGED <<modVars, heldVars, layoutVars, running, keyboard, now, epd,
                   last_full_refresh, pc,
                   wake_ctrl, wrapVars>>

\* a Ctrl+R that pushes the full frame and leaves the redraw request standing
CtrlRKeepsRequest ==
    /\ Dispatch /\ ctrl_held
    /\ \E r \in {RenderNow} :
        /\ scroll_offset' = r.scroll_offset
        /\ io' = <<<<"full_refresh", r.frame>>>>
    /\ needs_display_update' = needs_display_update
    /\ last_full_refresh' = now
    /\ UNCHANGED <<text, cursor, doc_path, dirty, modVars, heldVars, layoutVars, running,
                   keyboard, last_save_time, storeVars, now, epd, pc, wake_ctrl,
                   wrapVars>>

\* Ctrl+R: force full refresh
CtrlR ==
    /\ Dispatch /\ ctrl_held
    /\ \E r \in {RenderNow} :
        /\ scroll_offset' = r.scroll_offset
        /\ io' = <<<<"full_refresh", r.frame>>>>
    /\ needs_display_update' = FALSE
    /\ last_full_refresh' = now
    /\ UNCHANGED <<text, cursor, doc_path, dirty, modVars, heldVars, layoutVars, running,
                   keyboard, last_save_time, storeVars, now, epd, pc, wake_ctrl,
                   wrapVars>>

\* a _switch_document that goes round from the last document to the first
CtrlArrowWrapping(direction) ==
    /\ Dispatch /\ ctrl_held
    /\ \E saved \in {SaveFile(files, doc_path, text)} :
       \E docs \in {ListDocs(saved)} :
       \E new_idx \in {(DocIndex(docs, doc_path) + direction) % Len(docs)} :
       \E doc \in {LoadDocument(saved, last_doc, docs[new_idx + 1], now)} :
          /\ files' = saved
          /\ dirty' = FALSE
          /\ last_save_time' = now
          /\ io' = <<<<"save", text>>>>
          /\ doc_path' = doc.doc_path
          /\ text' = doc.text
          /\ cursor' = Len(doc.text)
          /\ last_doc' = doc.doc_path
          /\ needs_display_update' = TRUE
    /\ UNCHANGED <<scroll_offset, modVars, heldVars,
                   layoutVars, running, keyboard, now, epd,
                   last_full_refresh, pc, wake_ctrl, wrapVars>>

\* Ctrl+Left and Ctrl+Right: _switch_document(direction)
CtrlArrow(direction) ==
    /\ Dispatch /\ ctrl_held
    /\ \E saved \in {SaveFile(files, doc_path, text)} :
       \E docs \in {ListDocs(saved)} :
       \E new_idx \in {DocIndex(docs, doc_path) + direction} :
          /\ files' = saved
          /\ dirty' = FALSE
          /\ last_save_time' = now
          /\ io' = <<<<"save", text>>>>
          /\ IF docs # <<>> /\ new_idx >= 0 /\ new_idx < Len(docs)
             THEN \E doc \in {LoadDocument(saved, last_doc, docs[new_idx + 1], now)} :
                      /\ doc_path' = doc.doc_path
                      /\ text' = doc.text
                      /\ cursor' = Len(doc.text)
                      /\ last_doc' = doc.doc_path
                      /\ needs_display_update' = TRUE
             ELSE UNCHANGED <<doc_path, text, cursor, last_doc, needs_display_update>>
    /\ UNCHANGED <<scroll_offset, modVars, heldVars,
                   layoutVars, running, keyboard, now, epd,
                   last_full_refresh,
                   pc, wake_ctrl, wrapVars>>

\* a key handled below the Ctrl block: no Ctrl held, or a key that is no
\* command
Plain(k) == Dispatch /\ ~(ctrl_held /\ k \in CommandKeys)

\* a move of the cursor: the text is left alone
MoveCursor(to, redraw) ==
    /\ cursor' = to
    /\ needs_display_update' = IF redraw THEN TRUE ELSE needs_display_update
    /\ io' = <<>>
    /\ UNCHANGED <<text, doc_path, dirty, scroll_offset, modVars, heldVars, layoutVars,
                   running, keyboard, last_save_time, storeVars, now, epd,
                   last_full_refresh, pc,
                   wake_ctrl, wrapVars>>

KeyLeft ==
    /\ Plain("KEY_LEFT")
    /\ MoveCursor(CursorLeft(text, cursor), cursor > 0)

KeyRight ==
    /\ Plain("KEY_RIGHT")
    /\ MoveCursor(CursorRight(text, cursor), cursor < Len(text))

KeyUp ==
    /\ Plain("KEY_UP")
    /\ MoveCursor(CursorUp(text, cursor, chars_per_line), TRUE)

KeyDown ==
    /\ Plain("KEY_DOWN")
    /\ MoveCursor(CursorDown(text, cursor, chars_per_line), TRUE)

KeyHome ==
    /\ Plain("KEY_HOME")
    /\ MoveCursor(HomePos(text, cursor, chars_per_line), TRUE)

KeyEnd ==
    /\ Plain("KEY_END")
    /\ MoveCursor(EndPos(text, cursor, chars_per_line), TRUE)

\* an edit: the text and the cursor change, the document is dirty
Edit(t, cur) ==
    /\ text' = t
    /\ cursor' = cur
    /\ dirty' = TRUE
    /\ needs_display_update' = TRUE
    /\ io' = <<>>
    /\ UNCHANGED <<doc_path, scroll_offset, modVars, heldVars,
                   layoutVars, running, keyboard,
                   last_save_time, storeVars, now, epd,
                   last_full_refresh, pc, wake_ctrl, wrapVars>>

\* a key press that edits nothing
NoEdit ==
    /\ io' = <<>>
    /\ UNCHANGED <<docVars, modVars, heldVars,
                   layoutVars, running, keyboard, last_save_time,
                   storeVars, now, epd, last_full_refresh, pc, wake_ctrl, wrapVars>>

KeyEnter(maxlen) ==
    /\ Plain("KEY_ENTER")
    /\ Len(text) < maxlen
    /\ Edit(InsertAt(text, cursor, <<NL>>), cursor + 1)

\* a Backspace that marks the document dirty wherever the cursor is
KeyBackspaceAlwaysDirty ==
    /\ Plain("KEY_BACKSPACE")
    /\ IF cursor > 0 THEN Edit(DeleteAt(text, cursor - 1), cursor - 1)
       ELSE Edit(text, cursor)

KeyBackspace ==
    /\ Plain("KEY_BACKSPACE")
    /\ IF cursor > 0 THEN Edit(DeleteAt(text, cursor - 1), cursor - 1) ELSE NoEdit

KeyDelete ==
    /\ Plain("KEY_DELETE")
    /\ IF cursor < Len(text) THEN Edit(DeleteAt(text, cursor), cursor) ELSE NoEdit

\* "Regular characters - insert at cursor position"
KeyChar(k, maxlen) ==
    /\ Plain(k)
    /\ LET char == IF shift_held THEN KEYMAP[k][2] ELSE KEYMAP[k][1]
       IN  /\ Len(text) + Len(char) <= maxlen
           /\ Edit(InsertAt(text, cursor, char), cursor + Len(char))

\* ------------------------------------------------------------------------
\* _sleep_mode and _wait_for_wake
\* ------------------------------------------------------------------------

\* a wake up that redraws the document as a partial update
WakeUpPartial ==
    /\ scroll_offset' = RenderNow.scroll_offset
    /\ io' = io \o <<<<"init_partial", <<>>>>,
                     <<"display_image_partial", RenderNow.frame>>>>
    /\ epd' = "partial"
    /\ needs_display_update' = FALSE
    /\ pc' = "dispatch"
    /\ wake_ctrl' = FALSE
    /\ UNCHANGED <<text, cursor, doc_path, dirty, modVars, layoutVars, running,
                   last_save_time, storeVars, now, last_full_refresh, pending,
                   wrapVars>>

\* _sleep_mode after _wait_for_wake returns: "Wake up: reinitialize display
\* and resume"; _handle_key returns to the batch of _main_loop
WakeUp ==
    /\ \E r \in {RenderNow} :
        /\ scroll_offset' = r.scroll_offset
        /\ io' = io \o <<<<"init", <<>>>>, <<"display", r.frame>>,
                         <<"init_partial", <<>>>>>>
    /\ epd' = "partial"
    /\ last_full_refresh' = now
    /\ needs_display_update' = FALSE
    /\ pc' = "dispatch"
    /\ wake_ctrl' = FALSE
    /\ UNCHANGED <<text, cursor, doc_path, dirty, modVars, layoutVars, running,
                   last_save_time, storeVars, now, pending, wrapVars>>

\* a wait that hands the Home key to the editor
WaitOnHandled(ctrl) ==
    /\ wake_ctrl' = ctrl
    /\ keyboard' = TRUE
    /\ cursor' = HomePos(text, cursor, chars_per_line)
    /\ needs_display_update' = TRUE
    /\ UNCHANGED <<text, doc_path, dirty, scroll_offset, modVars, layoutVars,
                   running, last_save_time, storeVars, now, epd,
                   last_full_refresh, io, pc, pending,
                   wrapVars>>

\* an event read by _wait_for_wake leaves everything but its own ctrl_held
WaitOn(ctrl) ==
    /\ wake_ctrl' = ctrl
    /\ keyboard' = TRUE
    /\ UNCHANGED <<docVars, modVars, layoutVars, running, last_save_time,
                   storeVars, now, epd, last_full_refresh, io, pc, pending, wrapVars>>

\* a wait that loops "while True": the interrupt does not end it
WaitStoppedIgnored ==
    /\ pc = "asleep" /\ ~running
    /\ UNCHANGED vars

\* "while self.running" fails: the interrupt ends the wait
WaitStopped ==
    /\ pc = "asleep" /\ ~running
    /\ WakeUp
    /\ UNCHANGED <<keyboard, heldVars>>

\* no keyboard, and _find_keyboard finds none
WaitNoKeyboard ==
    /\ pc = "asleep" /\ running /\ ~keyboard
    /\ UNCHANGED <<docVars, modVars, heldVars,
                   layoutVars, running, keyboard, last_save_time,
                   storeVars, now, epd,
                   last_full_refresh, io, pc, pending, wake_ctrl, wrapVars>>

\* select times out
WaitIdle ==
    /\ pc = "asleep" /\ running
    /\ WaitOn(wake_ctrl)
    /\ UNCHANGED heldVars

\* select or read raises OSError
WaitLost ==
    /\ pc = "asleep" /\ running
    /\ keyboard' = FALSE
    /\ UNCHANGED <<docVars, modVars, heldVars, layoutVars, running, last_save_time,
                   storeVars, now, epd,
                   last_full_refresh, io, pc, pending, wake_ctrl, wrapVars>>

\* a Ctrl key event
WaitCtrl ==
    /\ pc = "asleep" /\ running
    /\ \E v \in KeyValues : WaitOn(v # 0) /\ ctrl_down' = (v # 0)
    /\ UNCHANGED shift_down

\* a Shift key event: it is neither Ctrl nor Q, the wait reads it and goes on
WaitShift ==
    /\ pc = "asleep" /\ running
    /\ \E v \in KeyValues : shift_down' = (v # 0)
    /\ WaitOn(wake_ctrl)
    /\ UNCHANGED ctrl_down

\* any other event that is not the wake shortcut: a key that is neither a
\* modifier nor Q, a Q released or repeated, a Q pressed without Ctrl
WaitKey ==
    /\ pc = "asleep" /\ running
    /\ WaitOn(wake_ctrl)
    /\ UNCHANGED heldVars

\* KEY_Q pressed with Ctrl held: _wait_for_wake returns
WakeKey ==
    /\ pc = "asleep" /\ running /\ wake_ctrl
    /\ keyboard' = TRUE
    /\ WakeUp
    /\ UNCHANGED heldVars

\* KEY_Q pressed with Ctrl held, with Shift and Ctrl events behind it in the
\* batch that keyboard.read() returned: the return from inside the loop over
\* the batch leaves them unhandled
WakeKeyInBatch ==
    /\ pc = "asleep" /\ running /\ wake_ctrl
    /\ keyboard' = TRUE
    /\ WakeUp
    /\ shift_down' \in BOOLEAN /\ ctrl_down' \in BOOLEAN

\* Ctrl+Q as one call of _handle_key that returns: save_document, then
\* _sleep_mode with a wait that the wake shortcut ends
SleepAndWake ==
    /\ Dispatch /\ ctrl_held
    /\ files' = SaveFile(files, doc_path, text)
    /\ dirty' = FALSE
    /\ last_save_time' = now
    /\ \E r \in {Render(text, cursor, chars_per_line, lines_per_page,
                        scroll_offset, FALSE)} :
        /\ scroll_offset' = r.scroll_offset
        /\ io' = <<<<"save", text>>, <<"init", <<>>>>, <<"display", SleepGoodbye>>,
                   <<"sleep", <<>>>>, <<"init", <<>>>>, <<"display", r.frame>>,
                   <<"init_partial", <<>>>>>>
    /\ epd' = "partial"
    /\ last_full_refresh' = now
    /\ wake_ctrl' = FALSE
    /\ needs_display_update' = FALSE
    /\ UNCHANGED <<text, cursor, doc_path, modVars, heldVars,
                   layoutVars, running, keyboard,
                   last_doc, now, pc, wrapVars>>

\* ------------------------------------------------------------------------
\* The session: every handler, short texts
\* ------------------------------------------------------------------------

\* the printable keys pressed
TypedKeys == {"KEY_A", "KEY_SPACE"}

\* the cursor keys
CursorKey ==
    \/ KeyLeft
    \/ KeyRight
    \/ KeyUp
    \/ KeyDown
    \/ KeyHome
    \/ KeyEnd

\* the session loop and the interrupt
Loop ==
    \/ Run
    \/ Signal
    \/ NoKeyboard
    \/ PollIdle
    \/ KeyboardLost
    \/ PollRead
    \/ EndIteration
    \/ Shutdown
    \/ Restart

\* the Ctrl commands but sleep
Command ==
    \/ KeyCtrl
    \/ CtrlS
    \/ CtrlN
    \/ CtrlR
    \/ CtrlArrow(-1)
    \/ CtrlArrow(1)

\* the sleep command and the wait for the wake shortcut
Sleep ==
    \/ CtrlQ
    \/ WaitStopped
    \/ WaitNoKeyboard
    \/ WaitIdle
    \/ WaitLost
    \/ WaitCtrl
    \/ WaitKey
    \/ WakeKey

Next ==
    \/ Loop
    \/ Tick({1, AUTOSAVE_INTERVAL, FULL_REFRESH_INTERVAL})
    \/ Command
    \/ Sleep
    \/ CursorKey
    \/ KeyIgnored
    \/ KeyEnter(MaxLen)
    \/ KeyBackspace
    \/ KeyDelete
    \/ \E k \in TypedKeys : KeyChar(k, MaxLen)

Spec == Init /\ [][Next]_vars

\* ------------------------------------------------------------------------
\* The editor: the keys and the document commands on longer texts, with a
\* keyboard that stays, no interrupt and a clock that stands still
\* ------------------------------------------------------------------------

\* a document an earlier session stored
PriorDoc == NewDocPath(-1)

\* EtyperApp.__init__, with the documents directory an earlier session left:
\* empty, or holding a document, the .last_doc pointer set or not
EditInit ==
    /\ text = <<>> /\ cursor = 0 /\ doc_path = NoPath
    /\ running = FALSE /\ dirty = FALSE
    /\ now = 0 /\ last_save_time = 0
    /\ keyboard = FALSE
    /\ shift_held = FALSE /\ ctrl_held = FALSE
    /\ shift_down = FALSE /\ ctrl_down = FALSE
    /\ chars_per_line = 30 /\ lines_per_page = 20
    /\ needs_display_update = TRUE /\ scroll_offset = 0
    /\ files \in {<<>>, Put(<<>>, PriorDoc, <<"a", NL>>)}
    /\ last_doc \in {NoPath, PriorDoc}
    /\ epd = "none" /\ last_full_refresh = 0 /\ io = <<>>
    /\ pc = "start" /\ pending = 0 /\ wake_ctrl = FALSE
    /\ lines = <<>> /\ cursor_line = 0 /\ cursor_col = 0 /\ pos = 0

EditNext ==
    \/ Run
    \/ PollIdle
    \/ PollRead
    \/ EndIteration
    \/ Command
    \/ SleepAndWake
    \/ CursorKey
    \/ KeyIgnored
    \/ KeyEnter(MaxEditLen)
    \/ KeyBackspace
    \/ KeyDelete
    \/ \E k \in TypedKeys : KeyChar(k, MaxEditLen)

EditSpec == EditInit /\ [][EditNext]_vars

\* ------------------------------------------------------------------------
\* The session under fair scheduling: the process runs on, so a step of the
\* program that stays enabled is taken; the environment (the clock, the
\* interrupt, the keyboard) owes nothing
\* ------------------------------------------------------------------------

\* the next event of a batch already read is handled
HandleKey ==
    \/ Command
    \/ CtrlQ
    \/ CursorKey
    \/ KeyIgnored
    \/ KeyEnter(MaxLen)
    \/ KeyBackspace
    \/ KeyDelete
    \/ \E k \in TypedKeys : KeyChar(k, MaxLen)

FairSpec ==
    /\ Spec
    /\ WF_vars(Run)
    /\ WF_vars(HandleKey)
    /\ WF_vars(EndIteration)
    /\ WF_vars(WaitStopped)
    /\ WF_vars(Shutdown)

\* ------------------------------------------------------------------------
\* One key event: _handle_key on every text, cursor and modifier state within
\* the bounds, in a running session that has read the event
\* ------------------------------------------------------------------------

\* a text stays within this length whatever key is pressed on it
KeyMax == MaxKeyLen + Len(KEYMAP["KEY_TAB"][1])

\* a session in _main_loop with one event read: the document typed and either
\* unsaved or saved as it is, the viewport on the cursor
KeyInit ==
    /\ text \in UNION {[1..n -> {"a", SP, NL}] : n \in 0..MaxKeyLen}
    /\ cursor \in 0..MaxKeyLen /\ cursor <= Len(text)
    /\ shift_held \in BOOLEAN /\ ctrl_held \in BOOLEAN
    /\ shift_down = shift_held /\ ctrl_down = ctrl_held
    /\ chars_per_line \in 1..MaxWrapCols
    /\ lines_per_page = CalcLinesPerPage(UsableH, 1)
    /\ doc_path = PriorDoc /\ last_doc = PriorDoc
    /\ dirty \in BOOLEAN
    /\ files = IF dirty THEN <<>> ELSE Put(<<>>, doc_path, text)
    /\ scroll_offset = AutoScroll(WrapWithCursor(text, cursor, chars_per_line).cursor_line,
                                  lines_per_page, 0)
    /\ needs_display_update = FALSE
    /\ running = TRUE /\ keyboard = TRUE
    /\ now = 0 /\ last_save_time = 0
    /\ epd = "partial" /\ last_full_refresh = 0 /\ io = <<>>
    /\ pc = "dispatch" /\ pending = 1 /\ wake_ctrl = FALSE
    /\ lines = <<>> /\ cursor_line = 0 /\ cursor_col = 0 /\ pos = 0

KeyNext ==
    \/ KeyShift
    \/ Command
    \/ CursorKey
    \/ KeyIgnored
    \/ KeyEnter(KeyMax)
    \/ KeyBackspace
    \/ KeyDelete
    \/ \E k \in DOMAIN KEYMAP : KeyChar(k, KeyMax)
    \/ EndIteration

KeySpec == KeyInit /\ [][KeyNext]_vars

\* ------------------------------------------------------------------------
\* The modifier keys across sleep and wake: a session in which Shift and
\* Ctrl are pressed and released, awake and asleep
\* ------------------------------------------------------------------------

ModifierNext ==
    \/ Run
    \/ PollRead
    \/ EndIteration
    \/ KeyShift
    \/ KeyCtrl
    \/ KeyIgnored
    \/ KeyBackspace
    \/ (\E k \in {"KEY_A", "KEY_S"} : KeyChar(k, MaxLen))
    \/ CtrlS
    \/ CtrlQ
    \/ WaitIdle
    \/ WaitCtrl
    \/ WaitShift
    \/ WaitKey
    \/ WakeKey
    \/ WakeKeyInBatch

ModifierSpec == Init /\ [][ModifierNext]_vars

\* ------------------------------------------------------------------------
\* The wrap engine alone: _wrap_with_cursor and _pos_from_line_col applied to
\* every text, width and cursor within the bounds
\* ------------------------------------------------------------------------

Chars == {"a", SP, NL}

Texts == UNION {[1..n -> Chars] : n \in 0..MaxWrapLen}

WrapInit ==
    /\ text \in Texts
    /\ cursor \in 0..MaxWrapLen /\ cursor <= Len(text)
    /\ chars_per_line \in 1..MaxWrapCols
    /\ doc_path = NoPath /\ dirty = FALSE
    /\ running = FALSE /\ keyboard = FALSE
    /\ now = 0 /\ last_save_time = 0
    /\ shift_held = FALSE /\ ctrl_held = FALSE
    /\ shift_down = FALSE /\ ctrl_down = FALSE
    /\ lines_per_page = 20
    /\ needs_display_update = TRUE /\ scroll_offset = 0
    /\ files = <<>> /\ last_doc = NoPath
    /\ epd = "none" /\ last_full_refresh = 0 /\ io = <<>>
    /\ pc = "wrap" /\ pending = 0 /\ wake_ctrl = FALSE
    /\ lines = <<>> /\ cursor_line = 0 /\ cursor_col = 0 /\ pos = 0

\* lines, cursor_line, cursor_col = self._wrap_with_cursor()
Wrap ==
    /\ pc = "wrap"
    /\ \E w \in {WrapWithCursor(text, cursor, chars_per_line)} :
        /\ lines' = w.lines
        /\ cursor_line' = w.cursor_line
        /\ cursor_col' = w.cursor_col
    /\ pc' = "wrapped"
    /\ UNCHANGED <<docVars, modVars, heldVars,
                   layoutVars, running, keyboard, last_save_time,
                   storeVars, now, epd, last_full_refresh, io, pending, wake_ctrl, pos>>

\* self._pos_from_line_col(cursor_line, cursor_col)
Locate ==
    /\ pc = "wrapped"
    /\ pos' = PosFromLineCol(text, chars_per_line, cursor_line, cursor_col)
    /\ pc' = "located"
    /\ UNCHANGED <<docVars, modVars, heldVars,
                   layoutVars, running, keyboard, last_save_time,
                   storeVars, now, epd,
                   last_full_refresh, io, pending, wake_ctrl, lines, cursor_line,
                   cursor_col>>

WrapNext ==
    \/ Wrap
    \/ Locate

WrapSpec == WrapInit /\ [][WrapNext]_vars

\* ------------------------------------------------------------------------
\* Properties
\* ------------------------------------------------------------------------

\* the content stored under a path, a file that does not exist yet counting
\* as empty
Stored(fs, path) == IF Exists(fs, path) THEN fs[path] ELSE <<>>

\* C1: in every reachable state of the editor (printable keys, Enter,
\* Backspace, Delete, arrows, Home, End, save, new, switch, sleep and wake)
\* the cursor is an offset of the text: 0 <= cursor <= len(text)
CursorInBounds == 0 <= cursor /\ cursor <= Len(text)

\* a second document is stored, the current one was loaded from storage and
\* the cursor has been moved back from its end
CursorInBoundsWitness ==
    /\ pc = "dispatch"
    /\ Cardinality(DOMAIN files) = 2
    /\ Exists(files, doc_path)
    /\ Len(text) = MaxEditLen
    /\ cursor = 1
    /\ CursorInBounds

\* line cur_line is one of the `visible` lines from line `scroll` on
LineInView(cur_line, visible, scroll) ==
    scroll <= cur_line /\ cur_line < scroll + visible

\* the cursor's line is in the viewport
InView ==
    LineInView(WrapWithCursor(text, cursor, chars_per_line).cursor_line,
               lines_per_page, scroll_offset)

\* the last handler pushed a frame of the document to the display: a frame
\* drawn by render, not a goodbye screen
DocumentPushed ==
    \E i \in DOMAIN io :
        \/ io[i][1] \in {"display_image_partial", "full_refresh"}
        \/ io[i][1] = "display" /\ io[i][2] \notin {SleepGoodbye, ShutdownGoodbye}

\* C2: after every render with at least one visible line,
\* scroll_offset <= cursor_line < scroll_offset + lines_per_page, whatever
\* the scroll offset was before and whatever edits, moves, new documents and
\* switches came before the render
ViewportInvariant == DocumentPushed /\ lines_per_page >= 1 => InView

\* a partial update has drawn the third line of a document, the viewport
\* scrolled down to it
ViewportWitness ==
    /\ pc = "loop"
    /\ io # <<>> /\ io[1][1] = "display_image_partial"
    /\ scroll_offset = 2
    /\ InView

\* the text that joining the wrapped lines of one paragraph gives, with one
\* space put back where the wrap took one
RECURSIVE RejoinWrapped(_, _, _)
RejoinWrapped(wrapped, para, para_char) ==
    IF wrapped = <<>> THEN <<>>
    ELSE Head(wrapped)
         \o (IF SpaceConsumed(para, para_char + Len(Head(wrapped)))
             THEN <<SP>> ELSE <<>>)
         \o RejoinWrapped(Tail(wrapped), para,
                          SkipConsumedSpace(para, para_char + Len(Head(wrapped))))

\* the number of visual lines of a paragraph
LineCount(para, cpl) ==
    IF para = <<>> THEN 1 ELSE Len(OrEmptyLine(TextWrap(para, cpl)))

\* the text that joining the visual lines gives, with a newline put back at
\* each paragraph boundary
RECURSIVE RejoinLines(_, _, _)
RejoinLines(ls, paras, cpl) ==
    IF paras = <<>> THEN <<>>
    ELSE RejoinWrapped(TakeFirst(ls, LineCount(Head(paras), cpl)), Head(paras), 0)
         \o (IF Len(paras) > 1
             THEN <<NL>> \o RejoinLines(DropFirst(ls, LineCount(Head(paras), cpl)),
                                        Tail(paras), cpl)
             ELSE <<>>)

\* C3: for any text and any width >= 1, joining the visual lines the wrap
\* returns, with a newline at each paragraph boundary and one space at each
\* wrap point that took a space, gives the text back
WrapRoundTrip ==
    pc \in {"wrapped", "located"}
        => RejoinLines(lines, Paragraphs(text), chars_per_line) = text

\* C4: for any text, any width >= 1 and every offset o in 0..len(text),
\* _pos_from_line_col of the (line, column) that _wrap_with_cursor gives for
\* o is o
MappingConsistent == pc = "located" => pos = cursor

\* C5: in every reachable state of a session, if dirty is false the content
\* stored under the current path is the text
DirtySound == ~dirty => Stored(files, doc_path) = text

\* C6: after new_document the text of the previous document is stored under
\* its path and the new path is another one, so no save of the new document
\* can overwrite it
NewKeepsPrior ==
    [][CtrlN => Stored(files', doc_path) = text /\ doc_path' # doc_path]_vars

\* the handler of the sleep shortcut has returned: it put the display to
\* sleep and the session handles keys again
Woken == pc = "dispatch" /\ \E i \in DOMAIN io : io[i][1] = "sleep"

AsleepFrame ==
    [][pc = "asleep" /\ pc' = "asleep" =>
          UNCHANGED <<text, cursor, dirty, doc_path, scroll_offset, files,
                      last_doc, io, epd, last_full_refresh>>]_vars

\* asleep with a Ctrl press read by the wait, the cursor inside the text
AsleepWitness ==
    /\ pc = "asleep" /\ wake_ctrl /\ keyboard
    /\ cursor > 0

\* C9: at the end of a session that an interrupt stopped, _shutdown saves the
\* document if it is dirty, then pushes the goodbye frame, then releases the
\* display, and leaves dirty false and the stored content equal to the text
ShutdownSound ==
    [][pc # "done" /\ pc' = "done" =>
          /\ io' = (IF dirty THEN <<<<"save", text>>>> ELSE <<>>)
                   \o <<<<"init", <<>>>>, <<"display", ShutdownGoodbye>>,
                        <<"sleep", <<>>>>, <<"close", <<>>>>>>
          /\ ~dirty'
          /\ Stored(files', doc_path') = text']_vars

\* C10: once the interrupt has cleared `running`, the session comes to the
\* end of _shutdown from every state, no key event needed, and it leaves only
\* from the top of the loop, the batch in progress handled
CooperativeTermination ==
    /\ (pc # "start" /\ ~running) ~> (pc = "done")
    /\ [][pc' = "done" /\ pc # "done" => pc = "loop" /\ pending = 0]_vars

\* the session has ended with the keyboard gone and text in the document
TerminationWitness ==
    /\ pc = "done" /\ ~running /\ ~keyboard
    /\ epd = "closed"
    /\ text # <<>>

\* an iteration of _main_loop, from its top or from the end of its batch
Iteration ==
    \/ NoKeyboard
    \/ PollIdle
    \/ KeyboardLost
    \/ EndIteration

\* C11: every iteration of the session loop that finds the document dirty and
\* the autosave interval elapsed, whether the input was ready, idle, missing
\* or failing, ends with the document saved and dirty cleared
AutosaveEveryIteration ==
    [][Iteration /\ AutosaveDue =>
          /\ ~dirty'
          /\ Stored(files', doc_path) = text
          /\ last_save_time' = now]_vars

\* the frame pushed as entry i of io is the frame of the document as it is
\* now, the unsaved marker as it was when the frame was drawn
ShowsDocument(i) ==
    io[i][2] = Render(text, cursor, chars_per_line, lines_per_page, scroll_offset,
                      io[i][2][4]).frame

DisconnectPreserves ==
    [][(pc = "loop" \/ pc = "asleep") =>
          /\ (keyboard /\ ~keyboard' =>
                 UNCHANGED <<text, cursor, doc_path, dirty, files, running, pc>>)
          /\ (~keyboard => UNCHANGED <<text, cursor, doc_path>>)]_vars

\* the keyboard is gone in a running session whose document has unsaved text
\* and the cursor at its start
DisconnectWitness ==
    /\ pc = "loop" /\ running /\ ~keyboard
    /\ dirty /\ text # <<>> /\ cursor = 0

\* no stored document comes after `path` (direction 1) or before it
\* (direction -1) in the order of the names
AtBoundary(fs, path, direction) ==
    \A p \in DOMAIN fs : direction * p[2] <= direction * path[2]

\* C14: a switch to the next document from the last of the sorted documents,
\* and a switch to the previous one from the first, leaves the document path,
\* the text, the cursor and the .last_doc pointer as they are
SwitchPastBoundary ==
    [][\A d \in {-1, 1} :
          CtrlArrow(d) /\ AtBoundary(files', doc_path, d) =>
              UNCHANGED <<doc_path, text, cursor, last_doc>>]_vars

\* two documents are stored, the current one is the last of them with the
\* cursor at the start of its text, and a command has just saved it and
\* asked for no redraw: a switch to the next document
SwitchBoundaryWitness ==
    /\ pc = "dispatch"
    /\ Len(io) = 1 /\ io[1][1] = "save"
    /\ ~needs_display_update
    /\ Cardinality(DOMAIN files) = 2
    /\ AtBoundary(files, doc_path, 1)
    /\ text # <<>> /\ cursor = 0

\* C15: an iteration of the session loop that ends 5 minutes or more after
\* the last full refresh of the panel pushes a full refresh, whatever was
\* edited or partially refreshed in between
TimedFullRefresh ==
    [][(PollIdle \/ EndIteration) /\ now - last_full_refresh >= FULL_REFRESH_INTERVAL =>
          /\ last_full_refresh' = now
          /\ \E i \in DOMAIN io' : io'[i][1] = "full_refresh"]_vars

\* C16: once a session has loaded its document the .last_doc pointer names
\* the current document, after the startup load, every new document and
\* every switch; and a session started while the document the pointer names
\* is stored opens that document with its stored text
LastOpenedTracksCurrent ==
    /\ [](pc # "start" => last_doc = doc_path)
    /\ [][pc = "start" /\ pc' # "start" /\ Exists(files, last_doc) =>
            /\ doc_path' = last_doc
            /\ text' = files[last_doc]
            /\ cursor' = Len(text')]_vars

\* a session has started on the stored text of the document that an earlier
\* session left current, a second document in storage
RestartWitness ==
    /\ pc = "loop"
    /\ Len(io) = 3 /\ io[1][1] = "init" /\ io[2][1] = "display"
    /\ text # <<>> /\ cursor = Len(text)
    /\ last_doc = doc_path
    /\ Cardinality(DOMAIN files) = 2

\* C17: every visual line the wrap gives is at most chars_per_line long, and
\* a text that is one word longer than that is cut at each multiple of
\* chars_per_line, nothing dropped or added
LinesFit ==
    pc \in {"wrapped", "located"} =>
        /\ \A i \in DOMAIN lines : Len(lines[i]) <= chars_per_line
        /\ (\A i \in DOMAIN text : text[i] \notin {SP, NL}) /\ text # <<>> =>
              /\ Len(lines) = (Len(text) + chars_per_line - 1) \div chars_per_line
              /\ \A i \in 1..(Len(lines) - 1) : Len(lines[i]) = chars_per_line
              /\ Join(lines) = text

\* a word of four characters is wrapped to lines of three
LinesFitWitness ==
    /\ pc = "wrapped"
    /\ chars_per_line = 3
    /\ text = <<"a", "a", "a", "a">>
    /\ lines = << <<"a", "a", "a">>, <<"a">> >>

\* C18: a Backspace pressed with the cursor at 0, and a Delete pressed with
\* the cursor at the end of the text, leave the text, the cursor and dirty as
\* they are
BoundaryEditsNoOp ==
    [][\/ KeyBackspace /\ cursor = 0
       \/ KeyDelete /\ cursor = Len(text)
       => UNCHANGED <<text, cursor, dirty>>]_vars

\* the event of the batch has been handled on a saved text with the cursor
\* at its start, nothing edited and no redraw asked for
BoundaryEditWitness ==
    /\ pc = "dispatch" /\ pending = 0
    /\ cursor = 0 /\ Len(text) = MaxKeyLen
    /\ ~dirty /\ ~needs_display_update
    /\ Stored(files, doc_path) = text

\* C19: a printable key handled below the Ctrl block puts its string of the
\* keycode table, the shifted one exactly when Shift is held and four spaces
\* for the tab key, into the text at the cursor, moves the cursor past it,
\* marks the document dirty and asks for a redraw
PrintableInsert ==
    [][\A k \in DOMAIN KEYMAP :
          KeyChar(k, KeyMax) =>
              \E s \in {KEYMAP[k][IF shift_held THEN 2 ELSE 1]} :
                  /\ Len(text') = Len(text) + Len(s)
                  /\ \A i \in 1..Len(text') :
                        text'[i] = IF i <= cursor THEN text[i]
                                   ELSE IF i <= cursor + Len(s) THEN s[i - cursor]
                                   ELSE text[i - Len(s)]
                  /\ cursor' = cursor + Len(s)
                  /\ dirty' /\ needs_display_update'
                  /\ (k = "KEY_TAB" => s = <<SP, SP, SP, SP>>)
                  /\ ~(ctrl_held /\ k \in CommandKeys)]_vars

\* a shifted letter has been typed between two characters of a text
InsertWitness ==
    /\ pc = "dispatch" /\ pending = 0
    /\ Len(text) = 3 /\ cursor = 2
    /\ text[2] = "A" /\ text[1] = "a" /\ text[3] = SP
    /\ dirty /\ needs_display_update

\* the offset of the first character at or after offset `from` of para that
\* is no space, Len(para) if there is none
RECURSIVE SkipSpaces(_, _)
SkipSpaces(para, from) ==
    IF from < Len(para) /\ para[from + 1] = SP THEN SkipSpaces(para, from + 1)
    ELSE from

\* the offsets in para at which the visual lines ls begin, the first of them
\* looked for from offset `from`: an empty line begins there, any other has
\* its first character that is no space at the first such character of para
RECURSIVE LineStarts(_, _, _)
LineStarts(ls, para, from) ==
    IF ls = <<>> THEN <<>>
    ELSE The({<<start>> \o LineStarts(Tail(ls), para, start + Len(Head(ls))) :
                 start \in {IF Head(ls) = <<>> THEN from
                            ELSE SkipSpaces(para, from) - SkipSpaces(Head(ls), 0)}})

\* the claim on the wrapped lines ls of a one-paragraph text, starts the
\* offsets at which they begin
WrapPointsMapped(ls, starts) ==
    \A i \in 1..(Len(ls) - 1) :
        \E wrap_point \in {starts[i] + Len(ls[i])} :
            text[wrap_point + 1] = SP =>
                /\ ls[i][Len(ls[i])] # SP /\ ls[i + 1][1] # SP
                /\ cursor \in wrap_point..(starts[i + 1] - 1) =>
                      cursor_line = i - 1 /\ cursor_col = Len(ls[i])
                /\ cursor = starts[i + 1] =>
                      cursor_line = i /\ cursor_col = 0

\* C20: where a paragraph is wrapped at a space, the space is on neither
\* visual line, an offset of the space dropped maps to the end of the line
\* before the break, and the offset of the first character after it maps to
\* column 0 of the next line
WrapPointMapping ==
    pc \in {"wrapped", "located"} /\ (\A i \in DOMAIN text : text[i] # NL) =>
        WrapPointsMapped(lines, LineStarts(lines, text, 0))

\* the cursor of the forward mapping v is on visual line target_line, in the
\* column of the forward mapping w clamped to the length of that line
Landed(w, v, target_line) ==
    /\ v.cursor_line = target_line
    /\ v.cursor_col = Min(w.cursor_col, Len(w.lines[target_line + 1]))

\* C21: a Down press with the cursor at (L, c) above the last visual line
\* leaves it at an offset whose forward mapping is (L + 1, min(c, length of
\* that line)), an Up press below the first line at one whose forward mapping
\* is (L - 1, min(c, length of that line)), Up on the first line and Down on
\* the last leave the cursor where it is, and neither changes text or dirty
UpDownMovement ==
    [][\E w \in {WrapWithCursor(text, cursor, chars_per_line)} :
       \E v \in {WrapWithCursor(text, cursor', chars_per_line)} :
          /\ (KeyDown =>
                /\ IF w.cursor_line < Len(w.lines) - 1
                   THEN Landed(w, v, w.cursor_line + 1)
                   ELSE cursor' = cursor
                /\ UNCHANGED <<text, dirty>>)
          /\ (KeyUp =>
                /\ IF w.cursor_line > 0
                   THEN Landed(w, v, w.cursor_line - 1)
                   ELSE cursor' = cursor
                /\ UNCHANGED <<text, dirty>>)]_vars

\* C22: after Home the forward mapping of the cursor is column 0 of the
\* visual line the cursor was on and the offset has not grown; after End it
\* is the column past the last character of that same line and the offset
\* has not shrunk
HomeEndStayOnLine ==
    [][\E w \in {WrapWithCursor(text, cursor, chars_per_line)} :
       \E v \in {WrapWithCursor(text, cursor', chars_per_line)} :
          /\ (KeyHome =>
                /\ v.cursor_line = w.cursor_line /\ v.cursor_col = 0
                /\ cursor' <= cursor)
          /\ (KeyEnd =>
                /\ v.cursor_line = w.cursor_line
                /\ v.cursor_col = Len(w.lines[w.cursor_line + 1])
                /\ cursor' >= cursor)]_vars

\* C23: a Ctrl+R press pushes one full frame and nothing else, clears the
\* redraw request and leaves the text, the cursor, dirty, the document path
\* and the active session as they are; the full frame is the frame of the
\* current document; an iteration that ends with no request pending pushes
\* no partial frame
ForceFullRefresh ==
    /\ [][CtrlR =>
            /\ Len(io') = 1 /\ io'[1][1] = "full_refresh"
            /\ ~needs_display_update'
            /\ UNCHANGED <<text, cursor, dirty, doc_path, pc, epd, running>>]_vars
    /\ [](\A i \in DOMAIN io :
            io[i][1] = "full_refresh" => io[i][2] = RenderNow.frame)
    /\ [][EndIteration /\ ~needs_display_update =>
            \A i \in DOMAIN io' : io'[i][1] # "display_image_partial"]_vars

\* Ctrl+R was the last event of its batch, pressed on an edited document:
\* the full frame of that document is out and no redraw is pending
ForceFullRefreshWitness ==
    /\ pc = "dispatch" /\ pending = 0
    /\ Len(io) = 1 /\ io[1][1] = "full_refresh"
    /\ io[1][2] = RenderNow.frame
    /\ dirty /\ Len(text) = MaxEditLen
    /\ ~needs_display_update

\* C24: whenever an event that is no Shift or Ctrl event is dispatched,
\* shift_held and ctrl_held are the held state of Shift and Ctrl that the
\* press and release events read so far imply, those read while asleep and
\* those behind the wake shortcut in its batch included
ModifiersConsistent ==
    [][Dispatch /\ ~KeyShift /\ ~KeyCtrl =>
          shift_held = shift_down /\ ctrl_held = ctrl_down]_vars

\* the offsets in the text t at which the visual lines ls begin, the first of
\* them looked for from offset `from`: an empty line begins there, any other
\* has its first character that is no space at the first such character of
\* t; a newline behind a line and the spaces after it ends the paragraph
RECURSIVE TextLineStarts(_, _, _)
TextLineStarts(ls, t, from) ==
    IF ls = <<>> THEN <<>>
    ELSE The({The({<<start>> \o TextLineStarts(Tail(ls), t,
                        IF after < Len(t) /\ t[after + 1] = NL THEN after + 1
                        ELSE start + Len(Head(ls))) :
                      after \in {SkipSpaces(t, start + Len(Head(ls)))}}) :
                 start \in {IF Head(ls) = <<>> THEN from
                            ELSE SkipSpaces(t, from) - SkipSpaces(Head(ls), 0)}})

\* offset o of the text t is a space dropped where a paragraph was wrapped:
\* a space between the end of a visual line and the start of the next line
\* of the same paragraph
WrapConsumed(ls, starts, t, o) ==
    /\ t[o + 1] = SP
    /\ \E i \in 1..(Len(ls) - 1) :
          /\ o \in (starts[i] + Len(ls[i]))..(starts[i + 1] - 1)
          /\ \A j \in (starts[i] + Len(ls[i]))..(starts[i + 1] - 1) : t[j + 1] = SP

\* C25: the forward mapping of an offset below the length of the text whose
\* character is neither a newline nor a space dropped at a wrap point is a
\* cell inside a visual line, and that cell holds the character at the offset
CursorOnCharacter ==
    /\ pc \in {"wrapped", "located"}
    /\ cursor < Len(text)
    /\ text[cursor + 1] # NL
    /\ ~WrapConsumed(lines, TextLineStarts(lines, text, 0), text, cursor)
    => /\ cursor_col < Len(lines[cursor_line + 1])
       /\ lines[cursor_line + 1][cursor_col + 1] = text[cursor + 1]

\* C26: a switch in direction d from a document that is not the last one in
\* that direction opens another document, and the switch back that follows it
\* with nothing done in between opens the first document again, with the text
\* it had before the first switch, saved or not, the cursor at the end of the
\* text and dirty cleared, the stored documents being those the first switch
\* left; a switch step is _switch_document applied to the session
SwitchRoundTrip ==
    [][\A d \in {-1, 1} :
          CtrlArrow(d) =>
              /\ \E there \in {SwitchDocument(files, last_doc, doc_path, text,
                                              cursor, d, now)} :
                    /\ files' = there.files /\ doc_path' = there.doc_path
                    /\ text' = there.text /\ cursor' = there.cursor
                    /\ last_doc' = there.last_doc /\ dirty' = there.dirty
              /\ (~AtBoundary(files', doc_path, d) =>
                    /\ doc_path' # doc_path
                    /\ \E back \in {SwitchDocument(files', last_doc', doc_path', text',
                                                   cursor', -d, now')} :
                          /\ back.doc_path = doc_path
                          /\ back.text = text
                          /\ back.cursor = Len(text)
                          /\ ~back.dirty
                          /\ back.files = files')]_vars

\* a switch has just saved the edited text of one document and opened
\* another one that holds a text
SwitchRoundTripWitness ==
    /\ pc = "dispatch" /\ needs_display_update /\ ~dirty
    /\ Len(io) = 1 /\ io[1][1] = "save" /\ io[1][2] # <<>>
    /\ text # <<>> /\ text # io[1][2]
    /\ cursor = Len(text)
    /\ \E p \in DOMAIN files : p # doc_path /\ files[p] = io[1][2]

====
